---- MODULE Spec2Model ----
(***************************************************************************)
(* Model of the Cardata Legacyline integration: the Auth Client's token    *)
(* request and result construction (auth.py), the Token Manager's locked   *)
(* get-or-refresh operation (token_manager.py) and the Vehicle Service's   *)
(* fetch (vehicle_manager.py).                                             *)
(*                                                                         *)
(* Time is counted in whole seconds.  The coroutines run on one asyncio    *)
(* event loop, so an action is the code a coroutine runs between two       *)
(* suspension points (a lock wait or an HTTP round trip).                  *)
(***************************************************************************)
EXTENDS Integers, Sequences, FiniteSets, TLC

\* ---------------------------------------------------------------- bounds
NumCallers == 2
MaxTicks == 2
MaxBuildNow == 3
MaxPolls == 2
MaxUpdates == 3

Callers == 1..NumCallers

\* ------------------------------------------------------ program constants
EARLY_EXPIRY_BUFFER == 900

REGION_CONFIGS == {"row", "na"}

\* Clock advances offered to the model: a quarter of an hour at a time, the
\* length of the expiry margin.
TickSteps == {900}

\* ------------------------------------------------------------ JSON values
\* expires_in as found in a JSON object: absent, a non-number, or a number.
Absent == [kind |-> "absent", val |-> 0]
Text == [kind |-> "text", val |-> 0]
Num(v) == [kind |-> "num", val |-> v]

ExpiresInNumbers == {600, 901, 3600}
ExpiresInValues == {Absent, Text} \cup {Num(v) : v \in ExpiresInNumbers}

\* A token payload (dict).  access_token / refresh_token are token ids, 0
\* standing for a missing or empty value; region "" is a missing key.
EmptyPayload ==
    [access_token |-> 0, refresh_token |-> 0, expires_in |-> Absent, region |-> ""]

\* isinstance(expires_in, (int, float))
IsNumber(x) == x.kind = "num"

\* datetime.isoformat() of an aware UTC datetime, and the stored values that
\* are no such string.
IsoFormat(t) == [kind |-> "iso", t |-> t]
NoExpiry == [kind |-> "none", t |-> 0]
GarbageExpiry == [kind |-> "garbage", t |-> 0]

\* dt_util.parse_datetime(expires_at) if expires_at else None
ParseDatetime(s) ==
    IF s.kind = "iso" THEN [ok |-> TRUE, t |-> s.t] ELSE [ok |-> FALSE, t |-> 0]

\* ------------------------------------------------------- HTTP responses
\* A redirect target or Location value: None or "" or a missing key (NoUrl),
\* a JSON value that is no string (NumberUrl), or a string with the names of
\* the query parameters it carries.
NoUrl == [kind |-> "none", params |-> {}]
NumberUrl == [kind |-> "number", params |-> {}]
Url(params) == [kind |-> "string", params |-> params]

\* The body of a response of the authenticate or token endpoint.
EmptyBody ==
    [kind |-> "empty", error |-> "", error_description |-> "",
     has_access_token |-> FALSE, has_refresh_token |-> FALSE, expires_in |-> Absent,
     redirect_to |-> NoUrl]
InvalidBody == [EmptyBody EXCEPT !.kind = "invalid"]
ListBody == [EmptyBody EXCEPT !.kind = "list"]
TokenBody(at, rt, ei) ==
    [EmptyBody EXCEPT !.kind = "object", !.has_access_token = at,
                      !.has_refresh_token = rt, !.expires_in = ei]
ErrorBody(e, d) ==
    [EmptyBody EXCEPT !.kind = "object", !.error = e, !.error_description = d]

Bodies ==
    {EmptyBody, InvalidBody, ListBody}
    \cup {TokenBody(TRUE, TRUE, ei) : ei \in ExpiresInValues}
    \cup {TokenBody(FALSE, TRUE, Num(3600)), TokenBody(TRUE, FALSE, Num(3600)),
          TokenBody(FALSE, FALSE, Absent)}
    \cup {ErrorBody(e, d) : e \in {"invalid_grant", "invalid_captcha", "server_error"},
                            d \in {"", "description"}}

Statuses == {200, 400, 401, 500}

\* What the session's POST gives: a transport failure or a status and body.
Responses ==
    {[transport |-> t, status |-> 0, body |-> EmptyBody] : t \in {"timeout", "client_error"}}
    \cup {[transport |-> "ok", status |-> s, body |-> b] : s \in Statuses, b \in Bodies}

\* ----------------------------------------------------------- Auth Client
\* A raised exception or a returned value.  exc is "" for a return,
\* "AuthError" with reason and message, or another exception type.
Raise(exc, reason, message) ==
    [exc |-> exc, reason |-> reason, message |-> message, payload |-> EmptyPayload,
     token_expires_at |-> NoExpiry]
Return(payload, expires) ==
    [exc |-> "", reason |-> "", message |-> "", payload |-> payload,
     token_expires_at |-> expires]

\* bool(payload) of a decoded JSON object: a dict is truthy when it has a key.
Truthy(body) ==
    /\ body.kind = "object"
    /\ \/ body.error # ""
       \/ body.error_description # ""
       \/ body.has_access_token
       \/ body.has_refresh_token
       \/ body.expires_in.kind # "absent"
       \/ body.redirect_to.kind # "none"

\* payload.get("error_description") or payload.get("error")
ErrorMessage(body) ==
    IF body.error_description # "" THEN body.error_description ELSE body.error

\* _http_error_to_auth_error(status, payload); payload is None when the body
\* is no JSON, and a non-empty JSON array has no .get
http_error_to_auth_error_no_captcha(status, body) ==
    IF body.kind = "list" THEN Raise("AttributeError", "", "")
    ELSE IF Truthy(body)
              /\ body.error \in {"invalid_grant", "invalid_client", "unauthorized",
                                 "invalid_request"}
         THEN Raise("AuthError", "invalid_auth", ErrorMessage(body))
    ELSE IF 400 <= status /\ status < 500
         THEN Raise("AuthError", "invalid_auth",
                    IF Truthy(body) THEN ErrorMessage(body) ELSE "")
    ELSE Raise("AuthError", "cannot_connect",
               IF Truthy(body) THEN ErrorMessage(body) ELSE "")

http_error_to_auth_error(status, body) ==
    IF body.kind = "list" THEN Raise("AttributeError", "", "")
    ELSE IF Truthy(body)
              /\ body.error \in {"invalid_grant", "invalid_client", "unauthorized",
                                 "invalid_request"}
         THEN Raise("AuthError", "invalid_auth", ErrorMessage(body))
    ELSE IF Truthy(body) /\ body.error = "invalid_captcha"
         THEN Raise("AuthError", "invalid_auth",
                    IF ErrorMessage(body) # "" THEN ErrorMessage(body)
                    ELSE "Invalid captcha token")
    ELSE IF 400 <= status /\ status < 500
         THEN Raise("AuthError", "invalid_auth",
                    IF Truthy(body) THEN ErrorMessage(body) ELSE "")
    ELSE Raise("AuthError", "cannot_connect",
               IF Truthy(body) THEN ErrorMessage(body) ELSE "")

\* _decode_json_response: exc = "" means the decoded body is returned
decode_json_response(resp) ==
    IF resp.status >= 400 THEN http_error_to_auth_error(resp.status, resp.body)
    ELSE IF resp.body.kind = "empty" THEN Return(EmptyPayload, NoExpiry)
    ELSE IF resp.body.kind = "invalid"
         THEN Raise("AuthError", "unknown", "Invalid JSON response")
    ELSE Return(EmptyPayload, NoExpiry)

\* The decoded token object, with the token ids the vendor issued.
DecodedPayload(body, seq) ==
    [access_token |-> IF body.kind = "object" /\ body.has_access_token THEN seq ELSE 0,
     refresh_token |-> IF body.kind = "object" /\ body.has_refresh_token THEN seq ELSE 0,
     expires_in |-> IF body.kind = "object" THEN body.expires_in ELSE Absent,
     region |-> ""]

\* The expiry computed by _build_auth_result at time now.
BuildExpiresAtNoBuffer(expires_in, now_) ==
    IF IsNumber(expires_in) /\ expires_in.val > 0 THEN now_ + expires_in.val ELSE now_

BuildExpiresAtAlwaysNow(expires_in, now_) == now_

BuildExpiresAtNoClamp(expires_in, now_) ==
    IF IsNumber(expires_in) THEN now_ + expires_in.val - EARLY_EXPIRY_BUFFER ELSE now_

BuildExpiresAt(expires_in, now_) ==
    IF IsNumber(expires_in)
    THEN LET expires_at == now_ + expires_in.val - EARLY_EXPIRY_BUFFER
         IN IF expires_at <= now_ THEN now_ ELSE expires_at
    ELSE now_

\* _build_auth_result(region, token_payload)
build_auth_result(region, token_payload, now_) ==
    Return([token_payload EXCEPT !.region = region],
           IsoFormat(BuildExpiresAt(token_payload.expires_in, now_)))

\* _async_request_token, from the response on: the transport failures are
\* asyncio.TimeoutError and aiohttp.ClientError.
async_request_token_error_key_ignored(resp, seq) ==
    IF resp.transport = "timeout" THEN Raise("TimeoutError", "", "")
    ELSE IF resp.transport = "client_error" THEN Raise("ClientError", "", "client error")
    ELSE LET decoded == decode_json_response(resp)
         IN IF decoded.exc # "" THEN decoded
            ELSE Return(DecodedPayload(resp.body, seq), NoExpiry)

async_request_token(resp, seq) ==
    IF resp.transport = "timeout" THEN Raise("TimeoutError", "", "")
    ELSE IF resp.transport = "client_error" THEN Raise("ClientError", "", "client error")
    ELSE LET decoded == decode_json_response(resp)
         IN IF decoded.exc # "" THEN decoded
            ELSE IF resp.body.kind = "object" /\ resp.body.error # ""
                 THEN Raise("AuthError", "invalid_auth",
                            IF resp.body.error_description # ""
                            THEN resp.body.error_description
                            ELSE "Token exchange failed")
            ELSE Return(DecodedPayload(resp.body, seq), NoExpiry)

\* async_refresh before the request: the region lookup.
RefreshRegionKnown(region_key) == region_key \in REGION_CONFIGS

\* async_refresh after the request: translate transport errors, build the
\* result.
async_refresh(region_key, resp, seq, now_) ==
    LET r == async_request_token(resp, seq)
    IN IF r.exc = "AuthError" THEN r
       ELSE IF r.exc = "ClientError" THEN Raise("AuthError", "cannot_connect", r.message)
       ELSE IF r.exc = "TimeoutError" THEN Raise("AuthError", "cannot_connect", "")
       ELSE IF r.exc # "" THEN r
       ELSE IF resp.body.kind = "list" THEN Raise("AttributeError", "", "")
       ELSE build_auth_result(region_key, r.payload, now_)

\* _extract_query_param(source, key): the value of the parameter, "" for
\* None
extract_query_param(source, key) ==
    IF source.kind = "none" THEN ""
    ELSE IF key \in source.params THEN "value"
    ELSE ""

\* The authenticate endpoint answers with redirects too.
LoginStatuses == Statuses \cup {302}

RedirectBody(r) == [EmptyBody EXCEPT !.kind = "object", !.redirect_to = r]

AuthenticateBodies ==
    {EmptyBody, InvalidBody, ListBody}
    \cup {RedirectBody(r) : r \in {NumberUrl, Url({"state"}), Url({"authorization"})}}
    \cup {TokenBody(TRUE, TRUE, Num(3600))}
    \cup {ErrorBody(e, "") : e \in {"invalid_grant", "invalid_captcha", "server_error"}}

CodeBodies ==
    {EmptyBody, InvalidBody, ListBody, RedirectBody(Url({"state"}))}
    \cup {ErrorBody(e, d) :
            e \in {"invalid_grant", "invalid_request", "invalid_captcha", "server_error"},
            d \in {"", "description"}}

Locations == {NoUrl, Url({"state"}), Url({"code", "state"})}

\* What the session's POST gives in the login steps.
LoginResponse(transport, status, body, location) ==
    [transport |-> transport, status |-> status, body |-> body, location |-> location]

LoginFailures ==
    {LoginResponse(t, 0, EmptyBody, NoUrl) : t \in {"timeout", "client_error"}}

AuthenticateResponses ==
    LoginFailures
    \cup {LoginResponse("ok", st, b, NoUrl) : st \in LoginStatuses, b \in AuthenticateBodies}

CodeResponses ==
    LoginFailures
    \cup {LoginResponse("ok", st, b, l) :
            st \in LoginStatuses, b \in CodeBodies, l \in Locations}

ExchangeResponses ==
    {LoginResponse(r.transport, r.status, r.body, NoUrl) : r \in Responses}

\* async_login's region lookup: "if not region"
LoginRegionKnownAny(region_key) == TRUE

LoginRegionKnown(region_key) == region_key \in REGION_CONFIGS

\* _async_step_authenticate from the response on: exc = "" returns the
\* authorization token.
async_step_authenticate(resp) ==
    IF resp.transport = "timeout" THEN Raise("TimeoutError", "", "")
    ELSE IF resp.transport = "client_error" THEN Raise("ClientError", "", "client error")
    ELSE LET decoded == decode_json_response(resp)
         IN IF decoded.exc # "" THEN decoded
            ELSE IF resp.body.kind = "list" THEN Raise("AttributeError", "", "")
            ELSE IF resp.body.kind # "object" \/ resp.body.redirect_to.kind = "none"
                 THEN Raise("AuthError", "invalid_auth", "Missing redirect target")
            ELSE IF resp.body.redirect_to.kind = "number"
                 THEN Raise("AttributeError", "", "")
            ELSE IF extract_query_param(resp.body.redirect_to, "authorization") = ""
                 THEN Raise("AuthError", "invalid_auth", "Missing authorization token")
            ELSE Return(EmptyPayload, NoExpiry)

\* _async_step_authorization_code from the response on: exc = "" returns the
\* code.
async_step_authorization_code_any_2xx(resp) ==
    IF resp.transport = "timeout" THEN Raise("TimeoutError", "", "")
    ELSE IF resp.transport = "client_error" THEN Raise("ClientError", "", "client error")
    ELSE IF resp.status >= 400 THEN http_error_to_auth_error(resp.status, resp.body)
    ELSE IF extract_query_param(resp.location, "code") = ""
         THEN Raise("AuthError", "invalid_auth", "Missing authorization code")
    ELSE Return(EmptyPayload, NoExpiry)

async_step_authorization_code(resp) ==
    IF resp.transport = "timeout" THEN Raise("TimeoutError", "", "")
    ELSE IF resp.transport = "client_error" THEN Raise("ClientError", "", "client error")
    ELSE IF resp.status # 302 THEN http_error_to_auth_error(resp.status, resp.body)
    ELSE IF extract_query_param(resp.location, "code") = ""
         THEN Raise("AuthError", "invalid_auth", "Missing authorization code")
    ELSE Return(EmptyPayload, NoExpiry)

\* _async_step_exchange_token and _build_auth_result, from the response on.
async_step_exchange_token(region_key, resp, seq, now_) ==
    LET r == async_request_token(resp, seq)
    IN IF r.exc # "" THEN r
       ELSE IF resp.body.kind = "list" THEN Raise("AttributeError", "", "")
       ELSE build_auth_result(region_key, r.payload, now_)

\* The except clauses of async_login around the three steps.
async_login_errors_timeout_passes(r) ==
    IF r.exc = "AuthError" THEN r
    ELSE IF r.exc = "ClientError" THEN Raise("AuthError", "cannot_connect", r.message)
    ELSE r

async_login_errors(r) ==
    IF r.exc = "AuthError" THEN r
    ELSE IF r.exc = "ClientError" THEN Raise("AuthError", "cannot_connect", r.message)
    ELSE IF r.exc = "TimeoutError" THEN Raise("AuthError", "cannot_connect", "")
    ELSE r

\* async_step_user's handlers around async_login: errors["base"], or
\* "create_entry" when the login returned.
form_outcome(r) ==
    IF r.exc = "AuthError" THEN (IF r.reason # "" THEN r.reason ELSE "unknown")
    ELSE IF r.exc # "" THEN "unknown"
    ELSE "create_entry"

\* ============================================================== state
VARIABLES
    entry,          \* the config entry's data: email, region, token, token_expires_at
    issued,         \* time at which the stored token's expiry was computed
    now,            \* dt_util.utcnow(), in seconds
    ticks,          \* number of clock advances so far
    locked,         \* TokenManager._lock._locked
    waiters,        \* TokenManager._lock._waiters, in arrival order
    pc,             \* where each caller of async_get_access_token stands
    local,          \* each caller's locals across the refresh request
    result,         \* what each caller's call returned or raised
    requestsSent,   \* refresh requests sent to the token endpoint so far
    outcomes,       \* per refresh request: what its caller got
    fpc,            \* where VehicleService.async_fetch stands
    vehicles,       \* async_fetch: the listed vehicles
    idx,            \* async_fetch: position in the list of vehicles
    summaries,      \* async_fetch: the summaries built so far
    fresult,        \* what async_fetch returned or raised
    requestLog,     \* the vehicle API requests sent, in order, and how each ended
    warnings,       \* profile failures logged as warnings
    lpc,            \* where async_login stands
    lregion,        \* async_login: the region key it was called with
    lresult,        \* what async_login returned or raised
    loginLog,       \* the login requests sent, in order, and how each ended
    form,           \* async_step_user: errors["base"], or how the flow ended
    flow,           \* the config flow: the email submitted, and _reauth_entry is set
    registry,       \* the config entries: unique ids, reloads triggered, entries created
    cdata,          \* VehicleCoordinator.data: the cached map of summaries
    last_update_success,    \* VehicleCoordinator.last_update_success
    notified,       \* times the coordinator's listeners were called
    polls,          \* polls started so far
    sensor          \* the sensor platform: listener registered, known_vins, entities added

tokenVars == <<entry, issued, now, ticks, locked, waiters, pc, local, result,
               requestsSent, outcomes>>

fetchVars == <<fpc, vehicles, idx, summaries, fresult, requestLog, warnings>>

loginVars == <<lpc, lregion, lresult, loginLog, form, flow, registry>>

vars == <<entry, issued, now, ticks, locked, waiters, pc, local, result,
          requestsSent, outcomes, fpc, vehicles, idx, summaries,
          fresult, requestLog, warnings, lpc, lregion, lresult, loginLog, form,
          flow, registry, cdata, last_update_success, notified, polls, sensor>>

pollVars == <<cdata, last_update_success, notified, polls, sensor>>

\* kind: "none" while the call runs, "token" for a returned access token,
\* else the exception raised; source: "cache" or "refresh"; reason: the
\* AuthError reason behind the exception; req: the refresh request this call
\* sent (0: none); joined: the refresh request that was in flight when the
\* call queued for the lock (0: none).
NoResult ==
    [kind |-> "none", token |-> 0, source |-> "", reason |-> "", req |-> 0, joined |-> 0]

\* No entry yet, or an entry without data.
NoEntry ==
    [email |-> "", region |-> "", token |-> EmptyPayload, token_expires_at |-> NoExpiry]

NoLocal == [data |-> NoEntry, req |-> 0, joined |-> 0]

NoOutcome == [kind |-> "none", token |-> 0]

\* VehicleCoordinator.data before the first successful poll (None) and after
\* a poll that returned the map m.
NoData == [loaded |-> FALSE, summaries |-> {}]
Data(m) == [loaded |-> TRUE, summaries |-> m]

\* The sensor platform before its async_setup_entry: no listener, and
\* afterwards the closure's known_vins, the lists handed to
\* async_add_entities (entities as <<vin, description key>>), and the VINs
\* each run of _async_add_entities found in coordinator.data.
NoSensor == [listening |-> FALSE, known_vins |-> {}, added |-> <<>>, runs |-> <<>>]

\* lresult while async_login has not ended.
NoLoginResult == Raise("pending", "", "")

\* The email of the account that is set up, and what a user may type in the
\* form: the same, the same in another case, another one.
AccountEmail == "user@example.com"
LoginEmails == {AccountEmail, "User@example.com", "other@example.com"}

\* str.lower() on these emails
Lower(email) == IF email = "User@example.com" THEN "user@example.com" ELSE email

\* async_step_user: unique_id = f"{email.lower()}_{region}"
UniqueId(email, region_key) == <<Lower(email), region_key>>

\* The unique ids configured when e is the data of the only entry.
ConfiguredIds(e) == IF e.email = "" THEN {} ELSE {UniqueId(e.email, e.region)}

InitRegions == {"row", "zz", ""}
InitExpiresIn == {Num(900), Num(3600)}

\* The records the program can find stored: no token at all, or a token the
\* login stored through _build_auth_result at time 0 (config_flow.py), whose
\* expiry string may since have been lost or damaged.
InitEntries ==
    {[NoEntry EXCEPT !.region = r] : r \in InitRegions}
    \cup
    {[email |-> AccountEmail, region |-> r,
      token |-> [access_token |-> at, refresh_token |-> rt, expires_in |-> ei,
                 region |-> r],
      token_expires_at |-> x] :
        r \in InitRegions, at \in {1}, rt \in {0, 1}, ei \in {Num(3600)},
        x \in {NoExpiry, GarbageExpiry}}
    \cup
    {[email |-> AccountEmail, region |-> r,
      token |-> [access_token |-> at, refresh_token |-> rt, expires_in |-> ei,
                 region |-> r],
      token_expires_at |-> build_auth_result(r, [EmptyPayload EXCEPT !.expires_in = ei],
                                             0).token_expires_at] :
        r \in InitRegions, at \in {0, 1}, rt \in {0, 1}, ei \in InitExpiresIn}

Init ==
    /\ entry \in InitEntries
    /\ issued = 0
    /\ now = 0
    /\ ticks = 0
    /\ locked = FALSE
    /\ waiters = <<>>
    /\ pc = [c \in Callers |-> "idle"]
    /\ local = [c \in Callers |-> NoLocal]
    /\ result = [c \in Callers |-> NoResult]
    /\ requestsSent = 0
    /\ outcomes = <<>>
    /\ fpc = "idle"
    /\ vehicles = <<>>
    /\ idx = 0
    /\ summaries = {}
    /\ fresult = [kind |-> "none"]
    /\ requestLog = <<>>
    /\ warnings = 0
    /\ lpc = "idle"
    /\ lregion = ""
    /\ lresult = NoLoginResult
    /\ loginLog = <<>>
    /\ form = "none"
    /\ flow = [email |-> "", reauth |-> FALSE]
    /\ registry = [unique_ids |-> ConfiguredIds(entry), reloads |-> 0, created |-> 0]
    /\ cdata = NoData
    /\ last_update_success = TRUE
    /\ notified = 0
    /\ polls = 0
    /\ sensor = NoSensor

\* ======================================================= Token Manager
\* asyncio.Lock.acquire takes the lock at once only when it is free and
\* nobody is queued for it.
LockFreeIgnored(l, w) == TRUE

LockFree(l, w) == ~l /\ w = <<>>

\* The cache test of async_get_token.
CacheValidLax(data, now_) ==
    /\ data.token.access_token # 0
    /\ ParseDatetime(data.token_expires_at).ok

CacheValidNever(data, now_) == FALSE

CacheValid(data, now_) ==
    /\ data.token.access_token # 0
    /\ ParseDatetime(data.token_expires_at).ok
    /\ ParseDatetime(data.token_expires_at).t > now_

\* "not refresh_token or not region"
CanRefreshAlways(data) == TRUE

CanRefresh(data) == data.token.refresh_token # 0 /\ data.region # ""

\* The exception async_get_token raises for an AuthError of async_refresh.
RefreshErrorKindAllFatal(reason) == "ConfigEntryAuthFailed"

RefreshErrorKind(reason) ==
    IF reason = "invalid_auth" THEN "ConfigEntryAuthFailed"
    ELSE IF reason = "cannot_connect" THEN "ConfigEntryNotReady"
    ELSE "ConfigEntryNotReady"

\* The entry data after async_refresh ended with r: an exception leaves the
\* stored data alone, a result replaces it by the data read before the
\* request with the new token and expiry.
StoredAfterRefreshCleared(current, data, r) ==
    IF r.exc = ""
    THEN [data EXCEPT !.token = r.payload, !.token_expires_at = r.token_expires_at]
    ELSE [current EXCEPT !.token = EmptyPayload, !.token_expires_at = NoExpiry]

StoredAfterRefreshAlways(current, data, r) ==
    [data EXCEPT !.token = r.payload, !.token_expires_at = r.token_expires_at]

StoredAfterRefresh(current, data, r) ==
    IF r.exc = ""
    THEN [data EXCEPT !.token = r.payload, !.token_expires_at = r.token_expires_at]
    ELSE current

\* TokenManager._lock._locked once async_get_token has left its
\* "async with self._lock" after async_refresh ended with r, by return or by
\* exception.
LockedAfterRefreshKeptOnError(r) == r.exc # ""

LockedAfterRefresh(r) == FALSE

\* async_get_access_token on the payload async_get_token returned.
AccessTokenResult(payload, source, req, joined) ==
    IF payload.access_token = 0
    THEN [NoResult EXCEPT !.kind = "ConfigEntryAuthFailed", !.source = source,
                          !.req = req, !.joined = joined]
    ELSE [NoResult EXCEPT !.kind = "token", !.token = payload.access_token,
                          !.source = source, !.req = req, !.joined = joined]

\* async_get_token from the point the lock is held up to its first
\* suspension point or its end; joined is the refresh request that was in
\* flight when the caller queued for the lock (0: none).
Body(c, joined) ==
    LET data == entry
    IN
    /\ IF CacheValid(data, now)
       THEN /\ result' = [result EXCEPT ![c] =
                   AccessTokenResult(data.token, "cache", 0, joined)]
            /\ pc' = [pc EXCEPT ![c] = "done"]
            /\ UNCHANGED <<locked, local, requestsSent, outcomes>>
       ELSE IF ~CanRefresh(data)
       THEN /\ result' = [result EXCEPT ![c] =
                   [NoResult EXCEPT !.kind = "ConfigEntryAuthFailed", !.joined = joined]]
            /\ pc' = [pc EXCEPT ![c] = "done"]
            /\ UNCHANGED <<locked, local, requestsSent, outcomes>>
       ELSE IF ~RefreshRegionKnown(data.region)
       THEN /\ result' = [result EXCEPT ![c] =
                   [NoResult EXCEPT !.kind = RefreshErrorKind("unknown"),
                                    !.reason = "unknown", !.joined = joined]]
            /\ pc' = [pc EXCEPT ![c] = "done"]
            /\ UNCHANGED <<locked, local, requestsSent, outcomes>>
       ELSE /\ requestsSent' = requestsSent + 1
            /\ outcomes' = Append(outcomes, NoOutcome)
            /\ locked' = TRUE
            /\ local' = [local EXCEPT ![c] =
                   [data |-> data, req |-> requestsSent + 1, joined |-> joined]]
            /\ pc' = [pc EXCEPT ![c] = "refreshing"]
            /\ UNCHANGED result

\* The refresh request in flight, 0 when there is none.
InFlight ==
    IF \E c \in Callers : pc[c] = "refreshing"
    THEN local[CHOOSE c \in Callers : pc[c] = "refreshing"].req
    ELSE 0

\* A caller enters async_get_access_token: it takes the lock and runs on, or
\* queues for the lock.
Call(c) ==
    /\ pc[c] = "idle"
    /\ IF LockFree(locked, waiters)
       THEN /\ Body(c, 0)
            /\ UNCHANGED waiters
       ELSE /\ waiters' = Append(waiters, c)
            /\ pc' = [pc EXCEPT ![c] = "waiting"]
            /\ local' = [local EXCEPT ![c] = [NoLocal EXCEPT !.joined = InFlight]]
            /\ UNCHANGED <<locked, result, requestsSent, outcomes>>
    /\ UNCHANGED <<entry, issued, now, ticks>>

\* The first waiter resumes once the lock was released.
Wake(c) ==
    /\ pc[c] = "waiting"
    /\ ~locked
    /\ waiters # <<>>
    /\ Head(waiters) = c
    /\ waiters' = Tail(waiters)
    /\ Body(c, local[c].joined)
    /\ UNCHANGED <<entry, issued, now, ticks>>

\* The refresh request of caller c ends with response resp: async_refresh
\* finishes, async_get_token maps the error or stores the new record, the
\* lock is released and async_get_access_token returns (reading the stored
\* expiry once more for its debug line).
Response(c, resp) ==
    LET data == local[c].data
        req == local[c].req
        r == async_refresh(data.region, resp, req + 1, now)
        res == IF r.exc = "AuthError"
               THEN [NoResult EXCEPT !.kind = RefreshErrorKind(r.reason),
                                     !.reason = r.reason, !.req = req,
                                     !.joined = local[c].joined]
               ELSE IF r.exc # ""
               THEN [NoResult EXCEPT !.kind = r.exc, !.req = req,
                                     !.joined = local[c].joined]
               ELSE AccessTokenResult(r.payload, "refresh", req, local[c].joined)
    IN
    /\ pc[c] = "refreshing"
    /\ resp \in Responses
    /\ entry' = StoredAfterRefresh(entry, data, r)
    /\ issued' = IF r.exc = "" THEN now ELSE issued
    /\ result' = [result EXCEPT ![c] = res]
    /\ outcomes' = [outcomes EXCEPT ![req] = [kind |-> res.kind, token |-> res.token]]
    /\ locked' = LockedAfterRefresh(r)
    /\ pc' = [pc EXCEPT ![c] = "done"]
    /\ local' = [local EXCEPT ![c] = NoLocal]
    /\ UNCHANGED <<now, ticks, waiters, requestsSent>>

\* Time passes.
Tick(d) ==
    /\ d \in TickSteps
    /\ ticks < MaxTicks
    /\ ticks' = ticks + 1
    /\ now' = now + d
    /\ UNCHANGED <<entry, issued, locked, waiters, pc, local, result, requestsSent,
                   outcomes>>

Next ==
    \/ \E c \in Callers : Call(c) /\ UNCHANGED <<fetchVars, loginVars, pollVars>>
    \/ \E c \in Callers : Wake(c) /\ UNCHANGED <<fetchVars, loginVars, pollVars>>
    \/ \E c \in Callers, resp \in Responses : Response(c, resp) /\ UNCHANGED <<fetchVars, loginVars, pollVars>>
    \/ \E d \in TickSteps : Tick(d) /\ UNCHANGED <<fetchVars, loginVars, pollVars>>

Spec == Init /\ [][Next]_vars

\* The Token Manager's calls at one instant, with the ways a refresh request
\* can end: a token, a token without refresh_token, an empty body, the
\* vendor's rejection, a server error, a body that is no JSON object, a
\* timeout and a connection error.
LiveResponses ==
    {r \in Responses :
        \/ r.transport # "ok"
        \/ r.status = 200 /\ r.body \in {TokenBody(TRUE, TRUE, Num(3600)),
                                          TokenBody(TRUE, FALSE, Num(3600)),
                                          TokenBody(TRUE, TRUE, Absent),
                                          EmptyBody, InvalidBody, ListBody}
        \/ r.status = 401 /\ r.body = ErrorBody("invalid_grant", "description")
        \/ r.status = 500 /\ r.body = EmptyBody}

WakeStep == \E c \in Callers : Wake(c) /\ UNCHANGED <<fetchVars, loginVars, pollVars>>

ResponseStep ==
    \E c \in Callers, resp \in LiveResponses :
        Response(c, resp) /\ UNCHANGED <<fetchVars, loginVars, pollVars>>

NextLive ==
    \/ \E c \in Callers : Call(c) /\ UNCHANGED <<fetchVars, loginVars, pollVars>>
    \/ WakeStep
    \/ ResponseStep

\* The event loop runs a waiter whose lock was released, and the request of
\* async_refresh returns or fails within its timeout (auth.py 298).
Fairness == WF_vars(WakeStep) /\ WF_vars(ResponseStep)

SpecLive == Init /\ [][NextLive]_vars /\ Fairness

TypeOK ==
    /\ pc \in [Callers -> {"idle", "waiting", "refreshing", "done"}]
    /\ locked \in BOOLEAN
    /\ requestsSent \in 0..NumCallers

\* ====================================================== Vehicle Service
\* JSON values of the vehicle API: "" is a missing key or null, NonStr a
\* value that is no string, Blank a string of spaces.
NonStr == "<number>"
Blank == "  "

\* str.strip()
Strip(v) == IF v = Blank THEN "" ELSE IF v = " iX " THEN "iX" ELSE v

\* _as_str(value): the stripped string, None ("") for anything else
as_str(value) == IF value = NonStr THEN "" ELSE Strip(value)

\* a or b
Or(a, b) == IF a # "" THEN a ELSE b

\* An element of the vehicle list.
Item(isdict, VIN, vin, Vin, brand, model) ==
    [isdict |-> isdict, VIN |-> VIN, vin |-> vin, Vin |-> Vin, brand |-> brand,
     model |-> model, appVehicleType |-> IF isdict THEN "CONNECTED" ELSE ""]

\* _extract_vin(data): the first of VIN, vin, Vin holding a non-empty string
extract_vin_two_keys(data) ==
    IF data.VIN # NonStr /\ data.VIN # "" THEN data.VIN
    ELSE IF data.vin # NonStr /\ data.vin # "" THEN data.vin
    ELSE ""

extract_vin(data) ==
    IF data.VIN # NonStr /\ data.VIN # "" THEN data.VIN
    ELSE IF data.vin # NonStr /\ data.vin # "" THEN data.vin
    ELSE IF data.Vin # NonStr /\ data.Vin # "" THEN data.Vin
    ELSE ""

ItemA == Item(TRUE, "WBA1", "", "", "BMW", "X5")
ItemB == Item(TRUE, "", "WBA2", "", "", " iX ")
ItemNoVin == Item(TRUE, NonStr, "", "", "MINI", "Cooper")
ItemNonDict == Item(FALSE, "", "", "", "", "")
ItemVinKey == Item(TRUE, NonStr, "", "WBA3", "BMW", "i4")
ItemAllKeys == Item(TRUE, "WBA1", "WBA2", "WBA3", "BMW", "X5")
ItemTwoKeys == Item(TRUE, "", "WBA2", "WBA3", "BMW", "iX")

VehicleLists ==
    {<<>>, <<ItemA>>, <<ItemA, ItemB>>, <<ItemNoVin, ItemB>>, <<ItemNonDict, ItemA>>,
     <<ItemVinKey>>, <<ItemAllKeys>>, <<ItemTwoKeys, ItemNoVin>>}

\* A decoded JSON payload of the vehicle API.
Payload(kind, items, brand, model, driveTrain) ==
    [kind |-> kind, items |-> items, brand |-> brand, model |-> model,
     driveTrain |-> driveTrain]

EmptyProfile == Payload("object", <<>>, "", "", "")

ListPayloads ==
    {Payload("list", l, "", "", "") : l \in VehicleLists}
    \cup {EmptyProfile, Payload("scalar", <<>>, "", "", ""),
          Payload("invalid", <<>>, "", "", "")}

ProfilePayloads ==
    {EmptyProfile,
     Payload("object", <<>>, "BMW", "X5 xDrive40i", "COMBUSTION"),
     Payload("object", <<>>, "BMW i", Blank, NonStr),
     Payload("list", <<>>, "", "", ""),
     Payload("invalid", <<>>, "", "", "")}

VehicleStatuses == {200, 400, 401, 404, 500, 503}

VehicleResponses(payloads) ==
    {[transport |-> t, status |-> 0, content_type |-> "", payload |-> EmptyProfile] :
        t \in {"timeout", "client_error"}}
    \cup {[transport |-> "ok", status |-> st, content_type |-> ct, payload |-> pl] :
            st \in VehicleStatuses, ct \in {"application/json", "text/html"},
            pl \in payloads}

\* _async_request from the response on: exc = "" returns the payload.
async_request_401_as_4xx(resp) ==
    IF resp.transport = "timeout" THEN [exc |-> "ConfigEntryNotReady", payload |-> EmptyProfile]
    ELSE IF resp.transport = "client_error" THEN [exc |-> "UpdateFailed", payload |-> EmptyProfile]
    ELSE IF resp.status >= 500 THEN [exc |-> "ConfigEntryNotReady", payload |-> EmptyProfile]
    ELSE IF resp.status >= 400 THEN [exc |-> "UpdateFailed", payload |-> EmptyProfile]
    ELSE IF resp.content_type = "application/json"
         THEN IF resp.payload.kind = "invalid"
              THEN [exc |-> "JSONDecodeError", payload |-> EmptyProfile]
              ELSE [exc |-> "", payload |-> resp.payload]
    ELSE [exc |-> "UpdateFailed", payload |-> EmptyProfile]

async_request(resp) ==
    IF resp.transport = "timeout" THEN [exc |-> "ConfigEntryNotReady", payload |-> EmptyProfile]
    ELSE IF resp.transport = "client_error" THEN [exc |-> "UpdateFailed", payload |-> EmptyProfile]
    ELSE IF resp.status = 401 THEN [exc |-> "ConfigEntryAuthFailed", payload |-> EmptyProfile]
    ELSE IF resp.status >= 500 THEN [exc |-> "ConfigEntryNotReady", payload |-> EmptyProfile]
    ELSE IF resp.status >= 400 THEN [exc |-> "UpdateFailed", payload |-> EmptyProfile]
    ELSE IF resp.content_type = "application/json"
         THEN IF resp.payload.kind = "invalid"
              THEN [exc |-> "JSONDecodeError", payload |-> EmptyProfile]
              ELSE [exc |-> "", payload |-> resp.payload]
    ELSE [exc |-> "UpdateFailed", payload |-> EmptyProfile]

\* _async_get_vehicle_list: the dicts of a JSON array, else UpdateFailed
RECURSIVE OnlyDicts(_)
OnlyDicts(items) ==
    IF items = <<>> THEN <<>>
    ELSE IF Head(items).isdict THEN <<Head(items)>> \o OnlyDicts(Tail(items))
    ELSE OnlyDicts(Tail(items))

async_get_vehicle_list_lenient(resp) ==
    LET r == async_request(resp)
    IN IF r.exc # "" THEN [exc |-> r.exc, vehicles |-> <<>>]
       ELSE IF r.payload.kind = "list"
            THEN [exc |-> "", vehicles |-> OnlyDicts(r.payload.items)]
       ELSE [exc |-> "", vehicles |-> <<>>]

async_get_vehicle_list(resp) ==
    LET r == async_request(resp)
    IN IF r.exc # "" THEN [exc |-> r.exc, vehicles |-> <<>>]
       ELSE IF r.payload.kind = "list"
            THEN [exc |-> "", vehicles |-> OnlyDicts(r.payload.items)]
       ELSE [exc |-> "UpdateFailed", vehicles |-> <<>>]

\* _async_get_vehicle_profile: a JSON object, else UpdateFailed
async_get_vehicle_profile(resp) ==
    LET r == async_request(resp)
    IN IF r.exc # "" THEN r
       ELSE IF r.payload.kind = "object" THEN r
       ELSE [exc |-> "UpdateFailed", payload |-> EmptyProfile]

\* What the profile step of async_fetch's loop does with the outcome of the
\* profile request: UpdateFailed is logged and gives an empty profile, any
\* other exception leaves async_fetch.
ProfileAbsorbed(exc) == exc \in {"", "UpdateFailed"}

\* The VehicleSummary of a listed vehicle and its profile.
Summary(vehicle, profile) ==
    [vin |-> extract_vin(vehicle),
     brand |-> Or(as_str(vehicle.brand), as_str(profile.brand)),
     model |-> Or(as_str(profile.model), as_str(vehicle.model)),
     drive_train |-> as_str(profile.driveTrain),
     app_vehicle_type |-> as_str(vehicle.appVehicleType),
     raw |-> [enumeration |-> vehicle, profile |-> profile]]

\* The next position from i on whose vehicle has a VIN, Len + 1 if none:
\* the loop's "continue".
RECURSIVE NextWithVin(_, _)
NextWithVin(vs, i) ==
    IF i > Len(vs) THEN i
    ELSE IF extract_vin(vs[i]) # "" THEN i
    ELSE NextWithVin(vs, i + 1)

\* The one caller of the Token Manager that async_fetch is.
FetchCaller == 1

\* A request of the vehicle API as the log keeps it: where it went and, once
\* it ended, the transport outcome, status, content type and JSON shape.
Request(target) ==
    [target |-> target, transport |-> "pending", status |-> 0, content_type |-> "",
     shape |-> ""]

\* What async_fetch raises when async_get_access_token raised kind: the two
\* config entry exceptions as they are, anything else as ConfigEntryNotReady.
TokenFailureAllNotReady(kind) == "ConfigEntryNotReady"

TokenFailure(kind) ==
    IF kind = "ConfigEntryAuthFailed" THEN "ConfigEntryAuthFailed"
    ELSE IF kind = "ConfigEntryNotReady" THEN "ConfigEntryNotReady"
    ELSE "ConfigEntryNotReady"

\* async_fetch's two region tests: "if not region_key", "if not region"
FetchRegionKnownAny(region_key) == TRUE

FetchRegionKnown(region_key) == region_key # "" /\ region_key \in REGION_CONFIGS

\* async_fetch starts: it resolves the region and asks the Token Manager for
\* an access token.
FetchStart ==
    /\ fpc = "idle"
    /\ IF ~FetchRegionKnown(entry.region)
       THEN /\ fpc' = "done"
            /\ fresult' = [kind |-> "ConfigEntryNotReady"]
            /\ UNCHANGED tokenVars
       ELSE /\ fpc' = "token"
            /\ Call(FetchCaller)
            /\ UNCHANGED fresult
    /\ UNCHANGED <<vehicles, idx, summaries, requestLog, warnings>>

\* The Token Manager's call has ended: async_fetch passes its exception on,
\* or sends the vehicle list request with the token.
FetchAfterToken ==
    /\ fpc = "token"
    /\ pc[FetchCaller] = "done"
    /\ IF result[FetchCaller].kind = "token"
       THEN /\ fpc' = "list"
            /\ requestLog' = Append(requestLog, Request("list"))
            /\ UNCHANGED fresult
       ELSE /\ fpc' = "done"
            /\ fresult' = [kind |-> TokenFailure(result[FetchCaller].kind)]
            /\ UNCHANGED requestLog
    /\ UNCHANGED <<vehicles, idx, summaries, warnings>>
    /\ UNCHANGED tokenVars

Ended(log, resp) ==
    [log EXCEPT ![Len(log)] = [@ EXCEPT !.transport = resp.transport,
                                        !.status = resp.status,
                                        !.content_type = resp.content_type,
                                        !.shape = resp.payload.kind]]

\* The vehicle list request ends: async_fetch fails, or starts its loop over
\* the listed vehicles.
ListResponse(resp) ==
    LET r == async_get_vehicle_list(resp)
    IN /\ fpc = "list"
       /\ resp \in VehicleResponses(ListPayloads)
       /\ IF r.exc # ""
          THEN /\ fpc' = "done"
               /\ fresult' = [kind |-> r.exc]
               /\ requestLog' = Ended(requestLog, resp)
               /\ UNCHANGED <<vehicles, idx, summaries>>
          ELSE /\ vehicles' = r.vehicles
               /\ LET j == NextWithVin(r.vehicles, 1)
                  IN /\ idx' = j
                     /\ IF j > Len(r.vehicles)
                        THEN /\ fpc' = "done"
                             /\ fresult' = [kind |-> "ok"]
                             /\ requestLog' = Ended(requestLog, resp)
                        ELSE /\ fpc' = "profile"
                             /\ requestLog' = Append(Ended(requestLog, resp),
                                                     Request(extract_vin(r.vehicles[j])))
                             /\ UNCHANGED fresult
               /\ UNCHANGED summaries
       /\ UNCHANGED warnings
       /\ UNCHANGED tokenVars

\* The profile request of the vehicle at idx ends: its summary is built (with
\* an empty profile after an absorbed failure) and the loop goes on, or
\* async_fetch fails.
ProfileResponse(resp) ==
    LET r == async_get_vehicle_profile(resp)
        vehicle == vehicles[idx]
        profile == IF r.exc = "" THEN r.payload ELSE EmptyProfile
        vin == extract_vin(vehicle)
        sums == {s \in summaries : s.vin # vin} \cup {Summary(vehicle, profile)}
        j == NextWithVin(vehicles, idx + 1)
    IN /\ fpc = "profile"
       /\ resp \in VehicleResponses(ProfilePayloads)
       /\ IF ~ProfileAbsorbed(r.exc)
          THEN /\ fpc' = "done"
               /\ fresult' = [kind |-> r.exc]
               /\ requestLog' = Ended(requestLog, resp)
               /\ UNCHANGED <<idx, summaries, warnings>>
          ELSE /\ warnings' = IF r.exc = "" THEN warnings ELSE warnings + 1
               /\ idx' = j
               /\ summaries' = sums
               /\ IF j > Len(vehicles)
                  THEN /\ fpc' = "done"
                       /\ fresult' = [kind |-> "ok"]
                       /\ requestLog' = Ended(requestLog, resp)
                  ELSE /\ fpc' = "profile"
                       /\ requestLog' = Append(Ended(requestLog, resp),
                                               Request(extract_vin(vehicles[j])))
                       /\ UNCHANGED fresult
       /\ UNCHANGED vehicles
       /\ UNCHANGED tokenVars

\* The stored records async_fetch starts from: a valid token, an expired one
\* with or without a refresh token, under a known, unknown or missing region.
FetchEntries ==
    {e \in InitEntries :
        /\ e.token_expires_at.kind = "iso"
        /\ e.token.expires_in \in {Num(900), Num(3600)}
        /\ e.token.access_token = 1}

InitFetch ==
    /\ Init
    /\ entry \in FetchEntries

NextFetch ==
    \/ FetchStart /\ UNCHANGED <<loginVars, pollVars>>
    \/ \E resp \in Responses : Response(FetchCaller, resp) /\ UNCHANGED <<fetchVars, loginVars, pollVars>>
    \/ FetchAfterToken /\ UNCHANGED <<loginVars, pollVars>>
    \/ \E resp \in VehicleResponses(ListPayloads) : ListResponse(resp) /\ UNCHANGED <<loginVars, pollVars>>
    \/ \E resp \in VehicleResponses(ProfilePayloads) :
            ProfileResponse(resp) /\ UNCHANGED <<loginVars, pollVars>>

SpecFetch == InitFetch /\ [][NextFetch]_vars

\* ================================================ result construction
\* _build_auth_result on its own: the payloads and times it is applied to.
BuildExpiresIn ==
    {Absent, Text}
    \cup {Num(v) : v \in {-901, -2, -1, 0, 1, 2, 899, 900, 901, 902, 1800, 3600}}

InitBuild ==
    /\ entry = [NoEntry EXCEPT !.region = "row"]
    /\ issued = 0
    /\ now \in 0..MaxBuildNow
    /\ ticks = 0
    /\ locked = FALSE
    /\ waiters = <<>>
    /\ pc = [c \in Callers |-> "idle"]
    /\ local = [c \in Callers |-> NoLocal]
    /\ result = [c \in Callers |-> NoResult]
    /\ requestsSent = 0
    /\ outcomes = <<>>
    /\ fpc = "idle"
    /\ vehicles = <<>>
    /\ idx = 0
    /\ summaries = {}
    /\ fresult = [kind |-> "none"]
    /\ requestLog = <<>>
    /\ warnings = 0
    /\ lpc = "idle"
    /\ lregion = ""
    /\ lresult = NoLoginResult
    /\ loginLog = <<>>
    /\ form = "none"
    /\ flow = [email |-> "", reauth |-> FALSE]
    /\ registry = [unique_ids |-> ConfiguredIds(entry), reloads |-> 0, created |-> 0]
    /\ cdata = NoData
    /\ last_update_success = TRUE
    /\ notified = 0
    /\ polls = 0
    /\ sensor = NoSensor

\* A token payload with expires_in = ei goes through _build_auth_result and
\* the result is stored, as both the login and the refresh do.
ApplyBuild(ei, at, rt) ==
    LET r == build_auth_result(entry.region,
                               [access_token |-> at, refresh_token |-> rt,
                                expires_in |-> ei, region |-> ""],
                               now)
    IN /\ entry' = [entry EXCEPT !.token = r.payload,
                                 !.token_expires_at = r.token_expires_at]
       /\ issued' = now
       /\ UNCHANGED <<now, ticks, locked, waiters, pc, local, result, requestsSent,
                      outcomes>>
       /\ UNCHANGED <<fetchVars, loginVars, pollVars>>

BuildLater ==
    /\ now < MaxBuildNow
    /\ now' = now + 1
    /\ UNCHANGED <<entry, issued, ticks, locked, waiters, pc, local, result,
                   requestsSent, outcomes>>
    /\ UNCHANGED <<fetchVars, loginVars, pollVars>>

NextBuild ==
    \/ \E ei \in BuildExpiresIn, at \in {0, 1}, rt \in {0, 1} : ApplyBuild(ei, at, rt)
    \/ BuildLater

SpecBuild == InitBuild /\ [][NextBuild]_vars

\* ================================================================ login
\* The region keys async_login is called with.
LoginRegions == {"row", "na", "zz", ""}

\* The token id the vendor issues to a login.
LoginToken == 1

\* A request of the login as the log keeps it: the step that sent it and,
\* once it ended, the response.
LoginRequest(step) ==
    [step |-> step, transport |-> "pending", status |-> 0, body |-> EmptyBody,
     location |-> NoUrl]

LoginEnded(log, resp) ==
    [log EXCEPT ![Len(log)] = [@ EXCEPT !.transport = resp.transport,
                                        !.status = resp.status,
                                        !.body = resp.body,
                                        !.location = resp.location]]

\* async_step_user after async_login: an error goes to the form; else
\* _abort_if_unique_id_configured aborts the flow when an entry has the
\* unique id, and only then comes the branch on _reauth_entry.
flow_outcome(r, configured, reauth) ==
    IF r.exc # "" THEN form_outcome(r)
    ELSE IF configured THEN "already_configured"
    ELSE IF reauth THEN "reauth_successful"
    ELSE form_outcome(r)

\* async_login ends with r inside async_step_user: the exception is
\* translated and becomes the form's error; a result becomes the data that
\* async_update_entry gives the entry under re-authentication, followed by
\* async_reload, or the data of the entry that async_create_entry creates.
LoginEnds(r) ==
    LET out == async_login_errors(r)
        unique_id == UniqueId(flow.email, out.payload.region)
        outcome == flow_outcome(out, unique_id \in registry.unique_ids, flow.reauth)
        written == outcome \in {"reauth_successful", "create_entry"}
    IN /\ lpc' = "done"
       /\ lresult' = out
       /\ form' = outcome
       /\ entry' = IF written
                   THEN [email |-> flow.email, region |-> out.payload.region,
                         token |-> out.payload,
                         token_expires_at |-> out.token_expires_at]
                   ELSE entry
       /\ issued' = IF written THEN now ELSE issued
       /\ registry' =
            [unique_ids |-> IF outcome = "create_entry"
                            THEN registry.unique_ids \cup {unique_id}
                            ELSE registry.unique_ids,
             reloads |-> IF outcome = "reauth_successful"
                         THEN registry.reloads + 1 ELSE registry.reloads,
             created |-> IF outcome = "create_entry"
                         THEN registry.created + 1 ELSE registry.created]

\* async_step_user takes the email and the region of the form and calls
\* async_login, which looks the region up and sends the authenticate request.
LoginStart(email, region_key) ==
    /\ lpc = "idle"
    /\ email \in LoginEmails
    /\ region_key \in LoginRegions
    /\ lregion' = region_key
    /\ flow' = [flow EXCEPT !.email = email]
    /\ IF ~LoginRegionKnown(region_key)
       THEN /\ LoginEnds(Raise("AuthError", "unknown", "Unsupported region"))
            /\ UNCHANGED loginLog
       ELSE /\ lpc' = "authenticate"
            /\ loginLog' = <<LoginRequest("authenticate")>>
            /\ UNCHANGED <<lresult, form, entry, issued, registry>>
    /\ UNCHANGED <<now, ticks, locked, waiters, pc, local, result, requestsSent, outcomes>>
    /\ UNCHANGED <<fetchVars, pollVars>>

\* The authenticate request ends.
AuthenticateResponse(resp) ==
    LET r == async_step_authenticate(resp)
    IN /\ lpc = "authenticate"
       /\ resp \in AuthenticateResponses
       /\ IF r.exc # ""
          THEN /\ LoginEnds(r)
               /\ loginLog' = LoginEnded(loginLog, resp)
          ELSE /\ lpc' = "code"
               /\ loginLog' = Append(LoginEnded(loginLog, resp), LoginRequest("code"))
               /\ UNCHANGED <<lresult, form, entry, issued, registry>>
       /\ UNCHANGED <<lregion, flow>>
       /\ UNCHANGED <<now, ticks, locked, waiters, pc, local, result, requestsSent,
                      outcomes>>
       /\ UNCHANGED <<fetchVars, pollVars>>

\* The authorization code request ends.
CodeResponse(resp) ==
    LET r == async_step_authorization_code(resp)
    IN /\ lpc = "code"
       /\ resp \in CodeResponses
       /\ IF r.exc # ""
          THEN /\ LoginEnds(r)
               /\ loginLog' = LoginEnded(loginLog, resp)
          ELSE /\ lpc' = "exchange"
               /\ loginLog' = Append(LoginEnded(loginLog, resp), LoginRequest("exchange"))
               /\ UNCHANGED <<lresult, form, entry, issued, registry>>
       /\ UNCHANGED <<lregion, flow>>
       /\ UNCHANGED <<now, ticks, locked, waiters, pc, local, result, requestsSent,
                      outcomes>>
       /\ UNCHANGED <<fetchVars, pollVars>>

\* The token exchange request ends, and with it the login.
ExchangeResponse(resp) ==
    /\ lpc = "exchange"
    /\ resp \in ExchangeResponses
    /\ LoginEnds(async_step_exchange_token(lregion, resp, LoginToken, now))
    /\ loginLog' = LoginEnded(loginLog, resp)
    /\ UNCHANGED <<lregion, flow>>
    /\ UNCHANGED <<now, ticks, locked, waiters, pc, local, result, requestsSent, outcomes>>
    /\ UNCHANGED <<fetchVars, pollVars>>

\* The setup form of an account that has no entry yet.
InitLogin ==
    /\ Init
    /\ entry = NoEntry

NextLogin ==
    \/ \E email \in LoginEmails, region_key \in LoginRegions : LoginStart(email, region_key)
    \/ \E resp \in AuthenticateResponses : AuthenticateResponse(resp)
    \/ \E resp \in CodeResponses : CodeResponse(resp)
    \/ \E resp \in ExchangeResponses : ExchangeResponse(resp)

SpecLogin == InitLogin /\ [][NextLogin]_vars

\* ========================================================== Auth Client
\* The Auth Client's two operations that end at the token endpoint:
\* async_login, whose first two steps succeed or time out here, and
\* async_refresh called on its own.
AuthenticateOk == LoginResponse("ok", 200, RedirectBody(Url({"authorization"})), NoUrl)
CodeOk == LoginResponse("ok", 302, EmptyBody, Url({"code", "state"}))
LoginTimeout == LoginResponse("timeout", 0, EmptyBody, NoUrl)

\* async_refresh looks the region up and sends the refresh request.
RefreshStart(region_key) ==
    /\ lpc = "idle"
    /\ region_key \in LoginRegions
    /\ lregion' = region_key
    /\ IF ~RefreshRegionKnown(region_key)
       THEN /\ lpc' = "done"
            /\ lresult' = Raise("AuthError", "unknown", "Unsupported region")
            /\ UNCHANGED loginLog
       ELSE /\ lpc' = "refresh"
            /\ loginLog' = <<LoginRequest("refresh")>>
            /\ UNCHANGED lresult
    /\ UNCHANGED <<form, flow, registry>>
    /\ UNCHANGED <<tokenVars, fetchVars, pollVars>>

\* The refresh request ends, and with it async_refresh.
RefreshResponse(resp) ==
    /\ lpc = "refresh"
    /\ resp \in ExchangeResponses
    /\ lpc' = "done"
    /\ lresult' = async_refresh(lregion, resp, LoginToken, now)
    /\ loginLog' = LoginEnded(loginLog, resp)
    /\ UNCHANGED <<lregion, form, flow, registry>>
    /\ UNCHANGED <<tokenVars, fetchVars, pollVars>>

NextAuthClient ==
    \/ \E region_key \in LoginRegions : LoginStart(AccountEmail, region_key)
    \/ \E resp \in {AuthenticateOk, LoginTimeout} : AuthenticateResponse(resp)
    \/ \E resp \in {CodeOk, LoginTimeout} : CodeResponse(resp)
    \/ \E resp \in ExchangeResponses : ExchangeResponse(resp)
    \/ \E region_key \in LoginRegions : RefreshStart(region_key)
    \/ \E resp \in ExchangeResponses : RefreshResponse(resp)

SpecAuthClient == InitLogin /\ [][NextAuthClient]_vars

\* ========================================================= Coordinator
\* VehicleCoordinator is a DataUpdateCoordinator whose update_method is
\* async_fetch; its constructor passes no update_interval and leaves
\* always_update at its default.
always_update == TRUE

\* The cached map after a poll whose async_fetch ended with outcome and had
\* built the map m: a returned map replaces the cache, an exception leaves
\* it alone.
CachedAfterPollAlways(current, outcome, m) == Data(m)

CachedAfterPoll(current, outcome, m) ==
    IF outcome = "ok" THEN Data(m) ELSE current

\* The responses of the vehicle API the polls are run against.
PollListResponses ==
    {r \in VehicleResponses(ListPayloads) :
        \/ r.transport = "timeout"
        \/ /\ r.transport = "ok"
           /\ r.status = 401
           /\ r.content_type = "application/json"
           /\ r.payload = EmptyProfile
        \/ /\ r.transport = "ok"
           /\ r.status = 200
           /\ r.content_type = "application/json"
           /\ r.payload.kind = "list"
           /\ r.payload.items \in {<<>>, <<ItemA>>, <<ItemA, ItemB>>}}

PollProfileResponses ==
    {r \in VehicleResponses(ProfilePayloads) :
        \/ r.transport = "timeout"
        \/ /\ r.transport = "ok"
           /\ r.status \in {200, 404}
           /\ r.content_type = "application/json"
           /\ r.payload \in {EmptyProfile,
                             Payload("object", <<>>, "BMW", "X5 xDrive40i", "COMBUSTION")}}

\* The keys of SENSOR_DESCRIPTIONS
SENSOR_DESCRIPTIONS == {"model", "brand", "drive_train"}

\* _async_add_entities on coordinator.data = d: the VINs not in known_vins
\* become known and get one entity per description; async_add_entities is
\* called when the list is not empty.
add_entities_known_ignored(sn, d) ==
    LET vins == {x.vin : x \in d.summaries}
        new_entities == vins \X SENSOR_DESCRIPTIONS
    IN [sn EXCEPT !.known_vins = sn.known_vins \cup vins,
                  !.added = IF new_entities # {} THEN Append(sn.added, new_entities)
                            ELSE sn.added,
                  !.runs = Append(sn.runs, vins)]

add_entities(sn, d) ==
    LET vins == {x.vin : x \in d.summaries}
        new_entities == (vins \ sn.known_vins) \X SENSOR_DESCRIPTIONS
    IN [sn EXCEPT !.known_vins = sn.known_vins \cup vins,
                  !.added = IF new_entities # {} THEN Append(sn.added, new_entities)
                            ELSE sn.added,
                  !.runs = Append(sn.runs, vins)]

\* The scheduler starts a poll, with at most max polls in a run: the
\* coordinator calls async_fetch.
PollStartWithin(max) ==
    /\ polls < max
    /\ polls' = polls + 1
    /\ FetchStart
    /\ UNCHANGED <<cdata, last_update_success, notified, sensor>>

PollStart == PollStartWithin(MaxPolls)

\* async_fetch has ended: the coordinator stores the returned map or keeps
\* its cache, records the success and calls its listeners; the frames of
\* async_fetch and async_get_access_token are gone.
PollEnds ==
    /\ fpc = "done"
    /\ cdata' = CachedAfterPoll(cdata, fresult.kind, summaries)
    /\ last_update_success' = (fresult.kind = "ok")
    /\ notified' =
          IF ~last_update_success' /\ ~last_update_success THEN notified
          ELSE IF \/ always_update
                  \/ last_update_success' # last_update_success
                  \/ cdata' # cdata
               THEN notified + 1
          ELSE notified
    /\ sensor' = IF sensor.listening /\ notified' # notified
                 THEN add_entities(sensor, cdata')
                 ELSE sensor
    /\ fpc' = "idle"
    /\ vehicles' = <<>>
    /\ idx' = 0
    /\ summaries' = {}
    /\ fresult' = [kind |-> "none"]
    /\ requestLog' = <<>>
    /\ pc' = [pc EXCEPT ![FetchCaller] = "idle"]
    /\ result' = [result EXCEPT ![FetchCaller] = NoResult]
    /\ UNCHANGED <<entry, issued, now, ticks, locked, waiters, local, requestsSent,
                   outcomes, warnings, polls>>

\* The polls run on an entry whose token stays valid.
PollEntries ==
    {e \in FetchEntries : e.region = "row" /\ e.token.expires_in = Num(3600)}

InitPoll ==
    /\ Init
    /\ entry \in PollEntries

NextPoll ==
    \/ PollStart /\ UNCHANGED loginVars
    \/ FetchAfterToken /\ UNCHANGED <<loginVars, pollVars>>
    \/ \E resp \in PollListResponses : ListResponse(resp) /\ UNCHANGED <<loginVars, pollVars>>
    \/ \E resp \in PollProfileResponses :
            ProfileResponse(resp) /\ UNCHANGED <<loginVars, pollVars>>
    \/ PollEnds /\ UNCHANGED loginVars

SpecPoll == InitPoll /\ [][NextPoll]_vars

\* ======================================================= sensor platform
\* The sensor platform's async_setup_entry, which the integration's
\* async_setup_entry forwards to once the first refresh succeeded: it runs
\* _async_add_entities once and registers it as the coordinator's listener.
SensorSetup ==
    /\ ~sensor.listening
    /\ fpc = "idle"
    /\ cdata.loaded
    /\ last_update_success
    /\ sensor' = [add_entities(sensor, cdata) EXCEPT !.listening = TRUE]
    /\ UNCHANGED <<cdata, last_update_success, notified, polls>>
    /\ UNCHANGED <<tokenVars, fetchVars, loginVars>>

\* The first refresh is repeated until it succeeds, then the platform is set
\* up, then the polls go on.
NextSensor ==
    \/ /\ cdata.loaded => sensor.listening
       /\ PollStartWithin(MaxUpdates)
       /\ UNCHANGED loginVars
    \/ FetchAfterToken /\ UNCHANGED <<loginVars, pollVars>>
    \/ \E resp \in PollListResponses : ListResponse(resp) /\ UNCHANGED <<loginVars, pollVars>>
    \/ \E resp \in PollProfileResponses :
            ProfileResponse(resp) /\ UNCHANGED <<loginVars, pollVars>>
    \/ PollEnds /\ UNCHANGED loginVars
    \/ SensorSetup

SpecSensor == InitPoll /\ [][NextSensor]_vars

\* ==================================================== re-authentication
\* The re-authentication flow of an entry that is in use: the flow's login
\* runs next to a fetch of the Vehicle Service, whose Token Manager may have
\* a refresh request in flight.
ReauthEntries == {e \in FetchEntries : e.region = "row" /\ e.token.refresh_token = 1}

ReauthRegions == {"row", "na"}

\* How the token endpoint answers here: a token, the vendor's rejection, a
\* timeout.
ReauthTokenResponses ==
    {r \in Responses :
        \/ r.transport = "timeout"
        \/ r.status = 200 /\ r.body = TokenBody(TRUE, TRUE, Num(3600))
        \/ r.status = 401 /\ r.body = ErrorBody("invalid_grant", "description")}

\* async_step_reauth: the flow keeps the entry it was started for in
\* _reauth_entry and shows the form.
ReauthStart ==
    /\ lpc = "idle"
    /\ ~flow.reauth
    /\ entry.email # ""
    /\ flow' = [flow EXCEPT !.reauth = TRUE]
    /\ UNCHANGED <<lpc, lregion, lresult, loginLog, form, registry>>
    /\ UNCHANGED <<tokenVars, fetchVars, pollVars>>

InitReauth ==
    /\ Init
    /\ entry \in ReauthEntries

NextReauth ==
    \/ ReauthStart
    \/ \E email \in LoginEmails, region_key \in ReauthRegions :
            flow.reauth /\ LoginStart(email, region_key)
    \/ \E resp \in {AuthenticateOk, LoginTimeout} : AuthenticateResponse(resp)
    \/ \E resp \in {CodeOk, LoginTimeout} : CodeResponse(resp)
    \/ \E resp \in ReauthTokenResponses :
            ExchangeResponse(LoginResponse(resp.transport, resp.status, resp.body, NoUrl))
    \/ FetchStart /\ UNCHANGED <<loginVars, pollVars>>
    \/ \E resp \in ReauthTokenResponses :
            Response(FetchCaller, resp) /\ UNCHANGED <<fetchVars, loginVars, pollVars>>
    \/ FetchAfterToken /\ UNCHANGED <<loginVars, pollVars>>
    \/ \E resp \in PollListResponses : ListResponse(resp) /\ UNCHANGED <<loginVars, pollVars>>
    \/ \E resp \in PollProfileResponses :
            ProfileResponse(resp) /\ UNCHANGED <<loginVars, pollVars>>

SpecReauth == InitReauth /\ [][NextReauth]_vars

\* ============================================================== claims
Max(a, b) == IF a >= b THEN a ELSE b

\* The stored record passes for valid at the current time.
StoredValid ==
    /\ entry.token.access_token # 0
    /\ entry.token_expires_at.kind = "iso"
    /\ entry.token_expires_at.t > now

\* Caller c runs async_get_token's locked section in this step: it reads
\* the stored record and ends its call or sends a refresh request.
RunsBody(c) ==
    /\ pc[c] \in {"idle", "waiting"}
    /\ pc'[c] \in {"refreshing", "done"}

\* Caller c's call ends in this step.
Returns(c) == result[c].kind = "none" /\ result'[c].kind # "none"

\* C1: callers that queued for the lock while a refresh request was in
\* flight send no request of their own and end with the outcome of that
\* request (the same access token, or the same error).
C1_SingleRefreshSharedOutcome ==
    \A d \in Callers :
        (pc[d] = "done" /\ result[d].joined # 0)
        => /\ result[d].req = 0
           /\ result[d].kind = outcomes[result[d].joined].kind
           /\ result[d].token = outcomes[result[d].joined].token

\* C2: while a refresh request is in flight, no other caller starts a
\* refresh request or reads the stored record; so at most one request is in
\* flight at any time.
C2_OneRefreshInFlight ==
    [][(\E c \in Callers : pc[c] = "refreshing")
       => \A d \in Callers :
            pc[d] # "refreshing"
            => /\ ~RunsBody(d)
               /\ pc'[d] # "refreshing"
               /\ requestsSent' = requestsSent]_vars

C2_Witness ==
    \E c, d \in Callers : pc[c] = "refreshing" /\ pc[d] = "waiting"

\* C3: a call that finds a non-empty access token and an expiry strictly in
\* the future returns that token, sends no request and leaves the record
\* unchanged.
C3_CacheHit ==
    [][\A c \in Callers :
        (RunsBody(c) /\ StoredValid)
        => /\ result'[c].kind = "token"
           /\ result'[c].token = entry.token.access_token
           /\ requestsSent' = requestsSent
           /\ pc'[c] = "done"
           /\ entry' = entry]_vars

C3_Witness ==
    \E c \in Callers :
        /\ pc[c] = "done"
        /\ result[c].kind = "token"
        /\ result[c].source = "cache"
        /\ result[c].token = entry.token.access_token
        /\ now > 0

C5_RefreshErrorClassification ==
    \A c \in Callers :
        (pc[c] = "done" /\ result[c].reason # "")
        => /\ result[c].kind \in {"ConfigEntryAuthFailed", "ConfigEntryNotReady"}
           /\ result[c].kind = "ConfigEntryAuthFailed" <=> result[c].reason = "invalid_auth"
           /\ result[c].reason \in {"invalid_auth", "cannot_connect", "unknown"}

C5_Witness ==
    \E c, d \in Callers :
        /\ result[c].reason = "invalid_auth" /\ result[c].req # 0
        /\ result[d].reason = "unknown" /\ result[d].req # 0

\* C6: a call that finds no valid token and no refresh_token or no region
\* raises ConfigEntryAuthFailed, sends no request and leaves the record
\* unchanged.
C6_ReauthRequired ==
    [][\A c \in Callers :
        (RunsBody(c) /\ ~StoredValid
            /\ (entry.token.refresh_token = 0 \/ entry.region = ""))
        => /\ result'[c].kind = "ConfigEntryAuthFailed"
           /\ result'[c].req = 0
           /\ requestsSent' = requestsSent
           /\ pc'[c] = "done"
           /\ entry' = entry]_vars

C6_Witness ==
    \E c \in Callers :
        /\ pc[c] = "done"
        /\ result[c].kind = "ConfigEntryAuthFailed"
        /\ result[c].source = ""
        /\ result[c].reason = ""
        /\ entry.token.access_token # 0
        /\ entry.token.refresh_token = 0
        /\ requestsSent = 0

\* C7 as stated: for every numeric expires_in = E the stored expiry is
\* max(now, now + E - 900), never before now and never after now + E.
C7_ExpiryOriginal ==
    (IsNumber(entry.token.expires_in) /\ entry.token_expires_at.kind = "iso")
    => LET E == entry.token.expires_in.val
           t == entry.token_expires_at.t
       IN /\ t = Max(issued, issued + E - 900)
          /\ t >= issued
          /\ t <= issued + E

\* C7 (amended): for every numeric expires_in = E the stored expiry is
\* max(now, now + E - 900) and never before now; it is never after now + E
\* when E >= 0, and it is now (later than now + E) when E < 0.
C7_ExpiryAmended ==
    (IsNumber(entry.token.expires_in) /\ entry.token_expires_at.kind = "iso")
    => LET E == entry.token.expires_in.val
           t == entry.token_expires_at.t
       IN /\ t = Max(issued, issued + E - 900)
          /\ t >= issued
          /\ E >= 0 => t <= issued + E
          /\ E < 0 => t = issued

C7_Witness ==
    /\ entry.token.expires_in = Num(3600)
    /\ issued > 0
    /\ entry.token_expires_at = IsoFormat(issued + 2700)

\* Seconds of the vendor-declared lifetime left at time now_ for a token
\* whose expiry was computed at time t.
LifetimeLeft(payload, t, now_) == t + payload.expires_in.val - now_

\* C8 as stated: every access token a call returns, from the stored record
\* or from a refresh in the same call, has at least 15 minutes of its
\* declared lifetime left when it is returned.
C8_MarginOriginal ==
    [][\A c \in Callers :
        (Returns(c) /\ result'[c].kind = "token" /\ IsNumber(entry'.token.expires_in))
        => LifetimeLeft(entry'.token, issued', now') >= 900]_vars

\* C8 (amended): an access token served from the stored record has more
\* than 15 minutes of its declared lifetime left when it is returned; a
\* token obtained by a refresh in the same call is returned with the whole
\* lifetime the vendor declared, however short.
C8_MarginAmended ==
    [][\A c \in Callers :
        (Returns(c) /\ result'[c].kind = "token")
        => /\ result'[c].token = entry'.token.access_token
           /\ result'[c].source = "cache"
                => /\ IsNumber(entry'.token.expires_in)
                   /\ LifetimeLeft(entry'.token, issued', now') > 900
           /\ (result'[c].source = "refresh" /\ IsNumber(entry'.token.expires_in))
                => LifetimeLeft(entry'.token, issued', now') = entry'.token.expires_in.val]_vars

C8_Witness ==
    \E c \in Callers :
        /\ result[c].kind = "token"
        /\ result[c].source = "cache"
        /\ now > issued
        /\ requestsSent > 0

\* C9: right after a successful refresh that declared more than 900 s, with
\* the clock unchanged, the next call finds the record just written valid:
\* it returns the access token of that refresh and sends no request.
C9_RoundTrip ==
    [][\A c, d \in Callers :
        (/\ RunsBody(c)
         /\ result[d].kind = "token"
         /\ result[d].source = "refresh"
         /\ result[d].req = requestsSent
         /\ issued = now
         /\ IsNumber(entry.token.expires_in)
         /\ entry.token.expires_in.val > 900)
        => /\ result'[c].kind = "token"
           /\ result'[c].source = "cache"
           /\ result'[c].token = result[d].token
           /\ requestsSent' = requestsSent
           /\ entry' = entry]_vars

C9_Witness ==
    \E c, d \in Callers :
        /\ result[d].kind = "token"
        /\ result[d].source = "refresh"
        /\ result[c].kind = "token"
        /\ result[c].source = "cache"
        /\ result[c].token = result[d].token
        /\ result[c].joined = 0
        /\ issued = now
        /\ now > 0

\* C10: when the list holds two vehicles with a VIN and the profile request
\* of the second one times out, async_fetch still returns both VINs, the
\* second with no drive_train and the model of its list entry.
C10_ProfileTimeoutAbsorbed ==
    (/\ fpc = "done"
     /\ Len(vehicles) = 2
     /\ extract_vin(vehicles[1]) # ""
     /\ extract_vin(vehicles[2]) # ""
     /\ extract_vin(vehicles[1]) # extract_vin(vehicles[2])
     /\ Len(requestLog) = 3
     /\ requestLog[3].transport = "timeout")
    => /\ fresult.kind = "ok"
       /\ {s.vin : s \in summaries} = {extract_vin(vehicles[1]), extract_vin(vehicles[2])}
       /\ \A s \in summaries :
            s.vin = extract_vin(vehicles[2])
            => /\ s.drive_train = ""
               /\ s.model = as_str(vehicles[2].model)

\* C11: the vehicle list request decides async_fetch's failure: 401 gives
\* ConfigEntryAuthFailed, 5xx ConfigEntryNotReady, any other 4xx
\* UpdateFailed, a 2xx that is not application/json UpdateFailed, a timeout
\* ConfigEntryNotReady and any other transport error UpdateFailed.
C11_ListRequestClassification ==
    (/\ fpc = "done"
     /\ Len(requestLog) = 1
     /\ requestLog[1].target = "list"
     /\ requestLog[1].transport # "pending")
    => LET q == requestLog[1]
       IN /\ q.transport = "timeout" => fresult.kind = "ConfigEntryNotReady"
          /\ q.transport = "client_error" => fresult.kind = "UpdateFailed"
          /\ (q.transport = "ok" /\ q.status = 401)
                => fresult.kind = "ConfigEntryAuthFailed"
          /\ (q.transport = "ok" /\ q.status >= 500 /\ q.status <= 599)
                => fresult.kind = "ConfigEntryNotReady"
          /\ (q.transport = "ok" /\ q.status >= 400 /\ q.status <= 499 /\ q.status # 401)
                => fresult.kind = "UpdateFailed"
          /\ (q.transport = "ok" /\ q.status >= 200 /\ q.status <= 299
                /\ q.content_type # "application/json")
                => fresult.kind = "UpdateFailed"

C11_Witness ==
    /\ fpc = "done"
    /\ Len(requestLog) = 1
    /\ requestLog[1].target = "list"
    /\ requestLog[1].transport = "ok"
    /\ requestLog[1].status = 401
    /\ fresult.kind = "ConfigEntryAuthFailed"

\* C12: a vehicle list response that is JSON but no array makes async_fetch
\* raise UpdateFailed, and no profile request is sent.
C12_ListNotAnArray ==
    (/\ fpc = "done"
     /\ Len(requestLog) >= 1
     /\ requestLog[1].target = "list"
     /\ requestLog[1].transport = "ok"
     /\ requestLog[1].status = 200
     /\ requestLog[1].content_type = "application/json"
     /\ requestLog[1].shape \in {"object", "scalar"})
    => /\ fresult.kind = "UpdateFailed"
       /\ Len(requestLog) = 1

C12_Witness ==
    /\ fpc = "done"
    /\ Len(requestLog) = 1
    /\ requestLog[1].transport = "ok"
    /\ requestLog[1].status = 200
    /\ requestLog[1].content_type = "application/json"
    /\ requestLog[1].shape = "object"
    /\ fresult.kind = "UpdateFailed"

\* C13: when async_get_access_token raises ConfigEntryAuthFailed or
\* ConfigEntryNotReady, async_fetch raises the same exception and sends no
\* vehicle list or profile request.
C13_TokenFailurePassedOn ==
    (/\ fpc = "done"
     /\ pc[FetchCaller] = "done"
     /\ result[FetchCaller].kind \in {"ConfigEntryAuthFailed", "ConfigEntryNotReady"})
    => /\ fresult.kind = result[FetchCaller].kind
       /\ requestLog = <<>>

C13_Witness ==
    /\ fpc = "done"
    /\ result[FetchCaller].kind = "ConfigEntryAuthFailed"
    /\ result[FetchCaller].reason = "invalid_auth"
    /\ result[FetchCaller].req # 0
    /\ fresult.kind = "ConfigEntryAuthFailed"
    /\ requestLog = <<>>

\* C14: async_login with a region key outside the registry raises the
\* unknown-region AuthError (reason unknown) at once and sends no request.
C14_UnknownRegion ==
    (lpc # "idle" /\ lregion \notin {"row", "na"})
    => /\ lpc = "done"
       /\ lresult.exc = "AuthError"
       /\ lresult.reason = "unknown"
       /\ loginLog = <<>>

C14_Witness ==
    /\ lpc = "done"
    /\ lregion = "zz"
    /\ lresult.exc = "AuthError"
    /\ lresult.reason = "unknown"
    /\ loginLog = <<>>

\* The order of the login's requests.
LoginSteps == <<"authenticate", "code", "exchange">>

\* C15: a login sends authenticate, authorization-code and token-exchange
\* in this order, each at most once and each only after the one before
\* succeeded; a login that fails ends with a typed AuthError.
C15_ThreeRequestsInOrder ==
    /\ Len(loginLog) <= 3
    /\ \A i \in 1..Len(loginLog) : loginLog[i].step = LoginSteps[i]
    /\ \A i \in 1..(Len(loginLog) - 1) :
         /\ loginLog[i].transport = "ok"
         /\ loginLog[i].status < 400
    /\ (lpc = "done" /\ lresult.exc # "") => lresult.exc = "AuthError"

\* C16: every failed login shows the form with one of the three reasons,
\* and a timeout or connection failure in any step shows cannot_connect.
C16_FormReason ==
    (lpc = "done" /\ lresult.exc # "")
    => /\ form \in {"invalid_auth", "cannot_connect", "unknown"}
       /\ (loginLog # <<>>
            /\ loginLog[Len(loginLog)].transport \in {"timeout", "client_error"})
          => form = "cannot_connect"

C16_Witness ==
    /\ lpc = "done"
    /\ Len(loginLog) = 2
    /\ loginLog[2].transport = "timeout"
    /\ form = "cannot_connect"

\* The login ended in _http_error_to_auth_error, applied to the status of
\* the last response and to a payload of its declared type: None (no body, no
\* JSON) or a dict.
MappingApplied ==
    /\ lpc = "done"
    /\ loginLog # <<>>
    /\ LET e == loginLog[Len(loginLog)]
       IN /\ e.transport = "ok"
          /\ e.body.kind \in {"empty", "invalid", "object"}
          /\ \/ e.step = "code" /\ e.status # 302
             \/ e.step # "code" /\ e.status >= 400

\* A JSON object with at least one key.
UsableBody(body) ==
    /\ body.kind = "object"
    /\ \/ body.error # ""
       \/ body.error_description # ""
       \/ body.has_access_token
       \/ body.has_refresh_token
       \/ body.expires_in.kind # "absent"
       \/ body.redirect_to.kind # "none"

\* C17 as stated: the mapping gives invalid_auth for a body whose error is
\* invalid_grant, invalid_client, unauthorized, invalid_request or
\* invalid_captcha, invalid_auth for no usable JSON body with a status in
\* [400, 500), and cannot_connect in every other case.
C17_MappingOriginal ==
    MappingApplied
    => LET e == loginLog[Len(loginLog)]
       IN /\ lresult.exc = "AuthError"
          /\ lresult.reason =
                IF UsableBody(e.body)
                   /\ e.body.error \in {"invalid_grant", "invalid_client", "unauthorized",
                                        "invalid_request", "invalid_captcha"}
                THEN "invalid_auth"
                ELSE IF ~UsableBody(e.body) /\ e.status >= 400 /\ e.status < 500
                THEN "invalid_auth"
                ELSE "cannot_connect"

\* C17 (amended): the mapping gives invalid_auth for a JSON object whose
\* error is one of the five names, invalid_auth for every status in
\* [400, 500) whatever the body, and cannot_connect in every other case.
C17_MappingAmended ==
    MappingApplied
    => LET e == loginLog[Len(loginLog)]
       IN /\ lresult.exc = "AuthError"
          /\ lresult.reason =
                IF UsableBody(e.body)
                   /\ e.body.error \in {"invalid_grant", "invalid_client", "unauthorized",
                                        "invalid_request", "invalid_captcha"}
                THEN "invalid_auth"
                ELSE IF e.status >= 400 /\ e.status < 500
                THEN "invalid_auth"
                ELSE "cannot_connect"

C17_Witness ==
    /\ MappingApplied
    /\ loginLog[Len(loginLog)].status = 400
    /\ loginLog[Len(loginLog)].body.error = "server_error"
    /\ lresult.reason = "invalid_auth"

\* C20: in the authorization-code step only a 302 whose Location carries a
\* code goes on to the token exchange; any other status ends the login with
\* the error of the HTTP-error mapping, a 302 without code with
\* invalid_auth, a 401 with {"error": "invalid_grant"} with invalid_auth and
\* the message invalid_grant; in all these cases no exchange request is sent.
C20_AuthorizationCodeStep ==
    (Len(loginLog) >= 2 /\ loginLog[2].transport = "ok")
    => LET e == loginLog[2]
           success == e.status = 302 /\ "code" \in e.location.params
       IN /\ success => Len(loginLog) = 3
          /\ ~success
                => /\ lpc = "done"
                   /\ Len(loginLog) = 2
                   /\ lresult.exc # ""
          /\ e.status # 302 => lresult = http_error_to_auth_error(e.status, e.body)
          /\ (e.status = 302 /\ "code" \notin e.location.params)
                => /\ lresult.exc = "AuthError"
                   /\ lresult.reason = "invalid_auth"
          /\ (e.status = 401 /\ e.body = ErrorBody("invalid_grant", ""))
                => /\ lresult.exc = "AuthError"
                   /\ lresult.reason = "invalid_auth"
                   /\ lresult.message = "invalid_grant"

C20_Witness ==
    /\ lpc = "done"
    /\ Len(loginLog) = 2
    /\ loginLog[2].status = 401
    /\ loginLog[2].body = ErrorBody("invalid_grant", "")
    /\ lresult.reason = "invalid_auth"
    /\ lresult.message = "invalid_grant"

\* The VINs of the listed vehicles that have one.
ListedVins ==
    {extract_vin(vehicles[i]) : i \in {j \in 1..Len(vehicles) : extract_vin(vehicles[j]) # ""}}

\* C18: a poll that fails leaves the cached map as it was; the cached map
\* changes only when a poll succeeded, and then to the whole map that
\* async_fetch returned, with a summary for every listed VIN.
C18_CacheKeepsLastGood ==
    [][/\ (fpc = "done" /\ fresult.kind # "ok" /\ fpc' = "idle") => cdata' = cdata
       /\ cdata' # cdata
            => /\ fpc = "done"
               /\ fresult.kind = "ok"
               /\ cdata' = Data(summaries)
               /\ {s.vin : s \in summaries} = ListedVins]_vars

C18_Witness ==
    /\ fpc = "idle"
    /\ polls = 2
    /\ ~last_update_success
    /\ cdata.loaded
    /\ \E s \in cdata.summaries : s.vin = "WBA2"

\* C19: a successful poll whose map equals the cached one calls no
\* listener.
C19_NotifyOnlyOnChange ==
    [][(/\ fpc = "done"
        /\ fresult.kind = "ok"
        /\ fpc' = "idle"
        /\ cdata' = cdata)
       => notified' = notified]_vars

\* The token requests of the log that got a response, and the bodies with a
\* top-level error key.
TokenRequests ==
    {i \in 1..Len(loginLog) :
        loginLog[i].step \in {"exchange", "refresh"} /\ loginLog[i].transport = "ok"}

HasErrorKey(body) == body.kind = "object" /\ body.error # ""

ReturnedRaw(q) ==
    /\ lresult.exc = ""
    /\ lresult.payload = [DecodedPayload(q.body, LoginToken) EXCEPT !.region = lregion]

\* C21 as stated: in the token exchange of the login and in the refresh, a
\* response whose JSON object has a top-level error key gives invalid_auth
\* with the error_description as message whatever the status; a JSON object
\* without that key is returned as the token object.
C21_ErrorKeyOriginal ==
    \A i \in TokenRequests :
        LET q == loginLog[i]
        IN /\ HasErrorKey(q.body)
              => /\ lresult.exc = "AuthError"
                 /\ lresult.reason = "invalid_auth"
                 /\ (q.body.error_description # ""
                     => lresult.message = q.body.error_description)
           /\ (q.body.kind = "object" /\ ~HasErrorKey(q.body) /\ q.status < 400)
              => ReturnedRaw(q)

\* C21 amended: the error key gives invalid_auth with the error_description
\* (or "Token exchange failed") as message when the status is below 400; a
\* status of 400 or more is an AuthError of the HTTP-error mapping, which for
\* a 5xx with an error it does not list is cannot_connect, and never returns
\* the payload; below 400 a JSON object without the key is returned as the
\* token object.
C21_ErrorKeyAmended ==
    \A i \in TokenRequests :
        LET q == loginLog[i]
        IN q.body.kind = "object"
           => IF q.status >= 400
              THEN /\ lresult.exc = "AuthError"
                   /\ lresult.reason \in {"invalid_auth", "cannot_connect"}
                   /\ (q.status >= 500 /\ q.body.error = "server_error")
                      => lresult.reason = "cannot_connect"
              ELSE IF HasErrorKey(q.body)
              THEN /\ lresult.exc = "AuthError"
                   /\ lresult.reason = "invalid_auth"
                   /\ lresult.message = IF q.body.error_description # ""
                                         THEN q.body.error_description
                                         ELSE "Token exchange failed"
              ELSE ReturnedRaw(q)

C21_Witness ==
    \E i \in TokenRequests :
        /\ loginLog[i].step = "refresh"
        /\ loginLog[i].status = 200
        /\ HasErrorKey(loginLog[i].body)
        /\ lresult.reason = "invalid_auth"
        /\ lresult.message = "description"

\* C22: async_fetch on an entry whose region is missing or not in the region
\* registry ends with ConfigEntryNotReady, and neither the Token Manager has
\* been called nor any request been sent.
C22_RegionBeforeToken ==
    (fpc # "idle" /\ (entry.region = "" \/ entry.region \notin REGION_CONFIGS))
    => /\ fpc = "done"
       /\ fresult.kind = "ConfigEntryNotReady"
       /\ pc[FetchCaller] = "idle"
       /\ result[FetchCaller] = NoResult
       /\ requestsSent = 0
       /\ requestLog = <<>>

C22_Witness ==
    /\ fpc = "done"
    /\ entry.region = "zz"
    /\ entry.token.access_token # 0
    /\ fresult.kind = "ConfigEntryNotReady"
    /\ pc[FetchCaller] = "idle"

\* The VIN the claim gives a list entry: the value of the first of the keys
\* VIN, vin, Vin that holds a non-empty string, "" when there is none.
FirstVin(item) ==
    LET values == <<item.VIN, item.vin, item.Vin>>
        good == {i \in 1..3 : values[i] # NonStr /\ values[i] # ""}
    IN IF good = {} THEN "" ELSE values[CHOOSE i \in good : \A j \in good : i <= j]

HasVin(item) == FirstVin(item) # ""
IsProfileRequest(q) == q.target # "list"
ProfileRequests == SelectSeq(requestLog, IsProfileRequest)
VehiclesWithVin == SelectSeq(vehicles, HasVin)

\* C23: the profile requests go, in order, to the VINs of the listed entries
\* that have one under VIN, vin or Vin (first non-empty string); an entry
\* without any gets no request and no summary, and a fetch that ends well
\* has requested and summarised every other entry.
C23_VinExtraction ==
    /\ Len(ProfileRequests) <= Len(VehiclesWithVin)
    /\ \A i \in 1..Len(ProfileRequests) :
            ProfileRequests[i].target = FirstVin(VehiclesWithVin[i])
    /\ \A s \in summaries :
            \E i \in 1..Len(ProfileRequests) : s.vin = ProfileRequests[i].target
    /\ (fpc = "done" /\ fresult.kind = "ok")
       => /\ Len(ProfileRequests) = Len(VehiclesWithVin)
          /\ {s.vin : s \in summaries}
                = {FirstVin(VehiclesWithVin[i]) : i \in 1..Len(VehiclesWithVin)}

C23_Witness ==
    /\ fpc = "done"
    /\ fresult.kind = "ok"
    /\ vehicles = <<ItemTwoKeys, ItemNoVin>>
    /\ {s.vin : s \in summaries} = {"WBA2"}
    /\ Len(requestLog) = 2

\* C26: a refresh that ends with an access token, sent for a record that
\* held a refresh_token, leaves a refresh_token in the record it stores.
C26_RefreshTokenKept ==
    [][\A c \in Callers :
        (/\ pc[c] = "refreshing"
         /\ local[c].data.token.refresh_token # 0
         /\ Returns(c)
         /\ result'[c].kind = "token")
        => entry'.token.refresh_token # 0]_vars

\* C29: the record never changes to a payload without access_token: a
\* refresh whose response has none leaves the stored payload as it was.
C29_StoredHasAccessToken ==
    [][entry' # entry => entry'.token.access_token # 0]_vars

\* The stored payload was given an expiry when it was issued, and its
\* expires_in is absent, not a number, or at most 900 seconds.
ShortLived ==
    /\ entry.token_expires_at.kind = "iso"
    /\ \/ ~IsNumber(entry.token.expires_in)
       \/ entry.token.expires_in.val <= 900

\* C30 as stated: such a payload is stored with the time of issue as its
\* expiry, and every call that reads it sends a refresh request.
C30_NeverServedOriginal ==
    [][/\ ShortLived' => entry'.token_expires_at.t = issued'
       /\ \A c \in Callers :
            (RunsBody(c) /\ ShortLived)
            => /\ pc'[c] = "refreshing"
               /\ requestsSent' = requestsSent + 1]_vars

\* C30 amended: such a payload is stored with the time of issue as its
\* expiry and no call is served from it; a call that reads it sends a
\* refresh request when the record holds a refresh_token and a region of the
\* registry, and otherwise fails without a request (ConfigEntryAuthFailed
\* without refresh_token or region, ConfigEntryNotReady for an unknown
\* region).
C30_NeverServedAmended ==
    [][/\ ShortLived' => entry'.token_expires_at.t = issued'
       /\ \A c \in Callers :
            (RunsBody(c) /\ ShortLived)
            => /\ result'[c].source # "cache"
               /\ IF entry.token.refresh_token # 0 /\ entry.region \in REGION_CONFIGS
                  THEN /\ pc'[c] = "refreshing"
                       /\ requestsSent' = requestsSent + 1
                  ELSE /\ pc'[c] = "done"
                       /\ requestsSent' = requestsSent
                       /\ result'[c].kind =
                            IF entry.token.refresh_token = 0 \/ entry.region = ""
                            THEN "ConfigEntryAuthFailed"
                            ELSE "ConfigEntryNotReady"]_vars

\* A record stored by a refresh whose response had a text for expires_in is
\* read again later, and a second refresh request goes out.
C30_Witness ==
    \E c \in Callers :
        /\ pc[c] = "refreshing"
        /\ local[c].req = 2
        /\ local[c].data.token.expires_in = Text
        /\ local[c].data.token_expires_at = IsoFormat(issued)
        /\ now > issued

\* C28: the lock is held only while a refresh request is in flight, and
\* every caller that waits for the lock ends its call, whether the refresh
\* ahead of it succeeded or failed.
C28_LockReleased ==
    /\ [](locked => \E c \in Callers : pc[c] = "refreshing")
    /\ \A c \in Callers : (pc[c] = "waiting") ~> (pc[c] = "done")

\* A caller queued behind a refresh that failed, and its own call ended.
C28_Witness ==
    \E c \in Callers :
        /\ pc[c] = "done"
        /\ result[c].joined # 0
        /\ outcomes[result[c].joined].kind = "ConfigEntryNotReady"

\* The Token Manager stores the result of a refresh in this step.
RefreshStores ==
    \E c \in Callers : pc[c] = "refreshing" /\ result'[c].source = "refresh"

\* The login of the flow ends in this step.
LoginEndsNow == lpc # "done" /\ lpc' = "done"

\* A step of async_fetch other than the end of the Token Manager's refresh.
FetchStep == fpc' # fpc \/ requestLog' # requestLog \/ summaries' # summaries

\* C24 as stated: the record changes only when the Token Manager stores the
\* result of a refresh; no step of the flow and no other step of async_fetch
\* changes it.
C24_SoleWriterOriginal ==
    [][/\ entry' # entry => RefreshStores
       /\ FetchStep => entry' = entry]_vars

\* C24 amended: the record changes only when the Token Manager stores the
\* result of a refresh or when the login of the re-authentication flow ends
\* with reauth_successful; no other step of async_fetch changes it.
C24_SoleWriterAmended ==
    [][/\ entry' # entry
            => \/ RefreshStores
               \/ LoginEndsNow /\ flow.reauth /\ form' = "reauth_successful"
       /\ FetchStep => entry' = entry]_vars

\* The flow has written the record, and a fetch has run to its end on it.
C24_Witness ==
    /\ form = "reauth_successful"
    /\ entry.email = "other@example.com"
    /\ fpc = "done"
    /\ fresult.kind = "ok"
    /\ requestsSent = 1

\* C25: a login that succeeds in a re-authentication flow under the email
\* and the region of its entry stores the new record in that entry,
\* triggers one reload and ends with reauth_successful, and no entry is
\* created.
C25_ReauthUpdatesEntry ==
    [][(/\ LoginEndsNow
        /\ flow.reauth
        /\ lresult'.exc = ""
        /\ flow.email = entry.email
        /\ lregion = entry.region)
       => /\ form' = "reauth_successful"
          /\ entry' = [email |-> flow.email, region |-> lregion,
                        token |-> lresult'.payload,
                        token_expires_at |-> lresult'.token_expires_at]
          /\ registry'.reloads = registry.reloads + 1
          /\ registry'.created = registry.created]_vars

\* C27: when a refresh ends whose request was in flight while the
\* re-authentication flow wrote the record, the token and the expiry that
\* the flow stored stay in the record.
C27_ReauthWriteKept ==
    [][\A c \in Callers :
        (/\ pc[c] = "refreshing"
         /\ pc'[c] = "done"
         /\ form = "reauth_successful"
         /\ entry # local[c].data)
        => /\ entry'.token = entry.token
           /\ entry'.token_expires_at = entry.token_expires_at]_vars

\* The lists handed to async_add_entities that hold the entity of vin and
\* description key.
AddedIn(vin, key) == {i \in 1..Len(sensor.added) : <<vin, key>> \in sensor.added[i]}

\* C31: every VIN the platform has seen has exactly one entity per sensor
\* description, however often it was in the cached map, left it and came
\* back; no entity belongs to a VIN never seen, no empty list is added, and
\* every VIN of the cached map is known once the platform listens.
C31_EntitiesOnce ==
    /\ \A vin \in sensor.known_vins, key \in SENSOR_DESCRIPTIONS :
            Cardinality(AddedIn(vin, key)) = 1
    /\ \A i \in 1..Len(sensor.added) :
            /\ sensor.added[i] # {}
            /\ \A e \in sensor.added[i] :
                    e[1] \in sensor.known_vins /\ e[2] \in SENSOR_DESCRIPTIONS
    /\ sensor.known_vins = UNION {sensor.runs[i] : i \in 1..Len(sensor.runs)}
    /\ sensor.listening => {x.vin : x \in cdata.summaries} \subseteq sensor.known_vins

\* A VIN was in the map, left it, came back, and has its three entities from
\* the first time.
C31_Witness ==
    \E i, j, k \in 1..Len(sensor.runs) :
        /\ i < j /\ j < k
        /\ "WBA1" \in sensor.runs[i]
        /\ "WBA1" \notin sensor.runs[j]
        /\ "WBA1" \in sensor.runs[k]
        /\ \A key \in SENSOR_DESCRIPTIONS : AddedIn("WBA1", key) = {1}

====
